---- MODULE Spec2Model ----
(***************************************************************************)
(* slack-wipe: a command-line run that resolves one conversation, collects *)
(* the caller's messages and files in it, asks for confirmation and issues *)
(* one delete/update call per item under rate-limit tickers.               *)
(*                                                                         *)
(* Two builds are modelled: src/main.go (flag -dm, variant "dm") and       *)
(* src/unnamed/part_000 (flag -im, variant "im").  The remote API and the  *)
(* terminal are the environment: every response is drawn from a small set. *)
(***************************************************************************)
EXTENDS Integers, Sequences, FiniteSets, TLC

VARIABLES
    variant,     \* which build runs: "dm" (main.go) or "im" (part_000)
    config,      \* var config: flag values, then merged with the JSON file
    file,        \* the JSON config file as os.Open / Decode will find it
    state,       \* var state
    pc,          \* the function the main goroutine is executing
    exitMsg,     \* the log.Fatalf message the process exited with ("" if none)
    credit,      \* ticks received from the tickers minus API calls started
    calls,       \* the API methods called so far
    channels,    \* local `channels` of the conversation-listing functions
    cursor,      \* local `cursor` / params.Cursor
    ncalls,      \* requests made by the pagination loop in progress
    ci,          \* index of the conversation channelForIM is examining
    members,     \* local `users` of usersInConversation
    page,        \* params.Page
    pageMax,     \* local pageMax
    messages,    \* local `messages` of fetchMessages / `files` of fetchFiles
    listed,      \* history: the items the remote has returned, per kind
    answered,    \* history: the stdin content each approval prompt consumed
    tasks,       \* the goroutines spawned by delete/redactAllUserMessages
    errors,      \* local `errors` of the wipe function in progress
    fi,          \* loop index of deleteAllUserFiles
    deleted,     \* history: the file IDs DeleteFile was called with, in order
    raced,       \* history: a goroutine read `errors` while another held a copy
    text,        \* input of redact (specification SpecRedact)
    redacted,    \* output of redact (specification SpecRedact)
    again,       \* output of redact on a text it produced (specification SpecRedact)
    trace        \* history: the requests of the latest listing loop, answers included
                 \* (recorded in specification SpecTrace only)

vars == << variant, config, file, state, pc, exitMsg, credit, calls, channels,
           cursor, ncalls, ci, members, page, pageMax, messages, listed,
           answered, tasks, errors, fi, deleted, raced, text, redacted, again,
           trace >>

(***************************************************************************)
(* Bounds of the model.                                                    *)
(***************************************************************************)
MaxCursorCalls == 2    \* requests a cursor-driven listing takes at most
MaxPageCount == 2      \* largest page count a listing endpoint reports
MaxItems == 2          \* items a listing returns over all its pages
MaxTextLen == 3        \* characters of a text given to redact

(***************************************************************************)
(* Sequences helpers.                                                      *)
(***************************************************************************)
SeqsUpTo(S, n) == UNION { [1..k -> S] : k \in 0..n }

Range(s) == { s[i] : i \in DOMAIN s }

Min(a, b) == IF a < b THEN a ELSE b

\* pages the remote may still return once `had` items were returned
Pages(S, had) == SeqsUpTo(S, MaxItems - Len(had))

\* a token is modelled by its characters; only its length matters
Tok(n) == [i \in 1..n |-> "x"]

(***************************************************************************)
(* Characters: unicode.IsSpace, unicode.IsPunct, unicode.ToLower.          *)
(***************************************************************************)
Spaces == { " ", "\t", "\n" }
Puncts == { ".", "!", "-", "_" }            \* categories Po, Pd, Pc
Symbols == { "$", "+" }                      \* categories Sc, Sm: not punctuation
Letters == { "a", "y", "e", "s", "n", "o", "Y", "E", "S", "7" }
DefaultMarker == "U+2588"                    \* the rune of main.go:47, category So
Chars == Spaces \cup Puncts \cup Symbols \cup Letters \cup {DefaultMarker}

IsSpace(r) == r \in Spaces
IsPunct(r) == r \in Puncts

ToLowerRune(r) ==
    CASE r = "Y" -> "y"
      [] r = "E" -> "e"
      [] r = "S" -> "s"
      [] OTHER -> r

ToLower(s) == [i \in DOMAIN s |-> ToLowerRune(s[i])]

RECURSIVE TrimLeft(_)
TrimLeft(s) ==
    IF s # << >> /\ IsSpace(Head(s)) THEN TrimLeft(Tail(s)) ELSE s

RECURSIVE TrimRight(_)
TrimRight(s) ==
    IF s # << >> /\ IsSpace(s[Len(s)])
    THEN TrimRight(SubSeq(s, 1, Len(s) - 1))
    ELSE s

TrimSpace(s) == TrimRight(TrimLeft(s))

(***************************************************************************)
(* The workspace the remote API serves.                                    *)
(***************************************************************************)
Me == "U1"
UserIDs == { "U1", "U2", "U3" }

\* slack.Channel: the fields the program reads
Conv(id, name, isIM, isMpIM, user) ==
    [ID |-> id, Name |-> name, IsIM |-> isIM, IsMpIM |-> isMpIM, User |-> user]

NoChannel == Conv("", "", FALSE, FALSE, "")       \* the zero slack.Channel
CGeneral == Conv("C1", "general", FALSE, FALSE, "")
CDirect == Conv("D1", "", TRUE, FALSE, "U2")
CGroup == Conv("G1", "mpdm", FALSE, TRUE, "")
\* a direct conversation that carries the name of a channel
CNamedDirect == Conv("D2", "general", TRUE, FALSE, "U2")
\* the user's direct conversation with themselves
CSelf == Conv("D0", "", TRUE, FALSE, "U1")
Convs == { CGeneral, CDirect, CGroup, CNamedDirect, CSelf }

ConvType(c) ==
    IF c.IsIM THEN "im" ELSE IF c.IsMpIM THEN "mpim" ELSE "public_channel"

\* slack.SearchMessage / slack.Message: the fields the program reads
Msg(user, channel, ts, txt) ==
    [User |-> user, Channel |-> channel, Timestamp |-> ts, Text |-> txt]

Messages ==
    { Msg("U1", "C1", "t1", << "a", "." >>),
      Msg("U2", "C1", "t2", << "o" >>),
      Msg("U1", "D1", "t3", << "$", " " >>) }

\* slack.File
File(id, user, channel) == [ID |-> id, User |-> user, Channel |-> channel]

Files == { File("F1", "U1", "C1"), File("F2", "U2", "D1") }

\* GetUsers: display name -> user ID
Bob == << "b" >>
Carol == << "c" >>
Nobody == << "z" >>                  \* a name GetUsers does not return
Directory == (Bob :> "U2") @@ (Carol :> "U3")

(***************************************************************************)
(* Command line and config file.                                           *)
(***************************************************************************)
Variants == { "dm", "im" }

TokenLens == { 0, 8, 9 }

\* values of config after flag.Parse (main.go:50-58, part_000:54-62)
FlagConfigs(v) ==
    { [Channel |-> ch, UserID |-> uid, IM |-> im, Token |-> Tok(n),
       WipeMessages |-> wm, WipeFiles |-> wf, AutoApprove |-> aa,
       Redact |-> rd, RedactMarker |-> DefaultMarker] :
        ch \in { "", "general" },
        uid \in IF v = "dm" THEN { "", "U2" } ELSE { "" },
        im \in IF v = "im" THEN { << >>, << Bob >>, << Nobody >>,
                                        << << "@", "b" >>, << " ", "c" >> >> }
                           ELSE { << >> },
        n \in TokenLens,
        wm \in BOOLEAN, wf \in BOOLEAN, aa \in BOOLEAN, rd \in BOOLEAN }

\* exported fields of the config struct a JSON object can set
ConfigFields(v) ==
    { "Channel", "Token", "WipeMessages", "WipeFiles", "AutoApprove",
      "Redact", "RedactMarker" } \cup (IF v = "dm" THEN { "UserID" } ELSE { "IM" })

EmptyObject == [f \in {} |-> ""]

\* the config file: absent, not JSON, or a JSON object setting some fields
ConfigFiles ==
    { [kind |-> "absent", fields |-> EmptyObject],
      [kind |-> "malformed", fields |-> EmptyObject] }
    \cup { [kind |-> "json", fields |-> o] :
            o \in { EmptyObject,
                    "Token" :> Tok(9),
                    "Token" :> Tok(0),
                    "Channel" :> "general",
                    ("Token" :> Tok(9)) @@ ("Channel" :> "general"),
                    ("Token" :> Tok(9)) @@ ("UserID" :> "U2"),
                    ("Token" :> Tok(9)) @@ ("IM" :> << Bob >>) } }

Closed == [kind |-> "closed", fields |-> EmptyObject]

\* faulty variant of Decode: the file is opened but its fields are not applied
DecodeNothing(cfg, o, v) == cfg

\* json.Decoder.Decode(&config): fields present in the object overwrite
Decode(cfg, o, v) ==
    [f \in DOMAIN cfg |->
        IF f \in DOMAIN o /\ f \in ConfigFields(v) THEN o[f] ELSE cfg[f]]

\* the two log.Fatalf checks of init, in source order
MissingParameter(cfg, v) ==
    IF cfg.Channel = "" /\ (IF v = "dm" THEN cfg.UserID = "" ELSE cfg.IM = << >>)
    THEN "-channel or -dm is required"
    ELSE IF cfg.Token = << >> THEN "-token is required"
    ELSE ""

InitialState ==
    [Channel |-> NoChannel, User |-> "", UserID |-> "", MemberList |-> << >>,
     MemberIDMap |-> {}, Users |-> EmptyObject,
     UserMessages |-> << >>, UserFiles |-> << >>]

NoAnswer == << "EOF" >>

\* the request history is kept only where a specification switches it on
NoTrace == [on |-> FALSE, log |-> << >>]

Init ==
    /\ variant \in Variants
    /\ config \in FlagConfigs(variant)
    /\ file \in ConfigFiles
    /\ state = InitialState
    /\ pc = "init"
    /\ exitMsg = ""
    /\ credit = 0
    /\ calls = {}
    /\ channels = << >>
    /\ cursor = ""
    /\ ncalls = 0
    /\ ci = 0
    /\ members = << >>
    /\ page = 0
    /\ pageMax = 0
    /\ messages = << >>
    /\ listed = [messages |-> << >>, files |-> << >>]
    /\ answered = [k \in { "messages", "files" } |-> NoAnswer]
    /\ tasks = << >>
    /\ errors = << >>
    /\ fi = 0
    /\ deleted = << >>
    /\ raced = FALSE
    /\ text = << >>
    /\ redacted = << >>
    /\ again = << >>
    /\ trace = NoTrace

\* variables no action of the run touches
redactVars == << text, redacted, again >>
listVars == << channels, cursor, ncalls, ci, members >>
fetchVars == << page, pageMax, messages, listed >>
wipeVars == << tasks, errors, fi, deleted, raced >>

\* faulty variant of Fatal: a failed fetch is logged and the caller goes on
FatalIgnoresFetchError(msg) ==
    /\ exitMsg' = msg
    /\ pc' = IF pc \in { "fetchMessages", "fetchDirectMessages" } THEN "promptMessages"
             ELSE IF pc = "fetchFiles" THEN "promptFiles"
             ELSE "exit"

\* faulty variant of Fatal: a failed message wipe is logged and main goes on
FatalReturnsFromWipe(msg) ==
    /\ exitMsg' = msg
    /\ pc' = IF pc \in { "deleteAllUserMessages", "redactAllUserMessages" }
             THEN (IF config.WipeFiles THEN "fetchFiles" ELSE "done")
             ELSE "exit"

\* log.Fatalf / log.Fatal: the process exits with the message
Fatal(msg) ==
    /\ pc' = "exit"
    /\ exitMsg' = msg

\* one listing request as the history keeps it: the calling function, the
\* arguments passed and what the remote answered (nothing but the error
\* when the request failed)
Entry(fn, ch, pg, cur, items, count, next, more, err) ==
    [fn |-> fn, channel |-> ch, page |-> pg, cursor |-> cur,
     items |-> IF err THEN << >> ELSE items,
     count |-> IF err THEN 0 ELSE count,
     next |-> IF err THEN "" ELSE next,
     more |-> IF err THEN FALSE ELSE more,
     err |-> err]

\* the history holds the requests of the listing loop in progress or, between
\* loops, of the last one: a request of another function or about another
\* conversation starts it afresh
Logged(e) ==
    IF ~trace.on THEN trace
    ELSE IF trace.log # << >> /\ trace.log[1].fn = e.fn
                             /\ trace.log[1].channel = e.channel
    THEN [trace EXCEPT !.log = Append(@, e)]
    ELSE [trace EXCEPT !.log = << e >>]

\* <-rateLimitTierN: the caller receives one tick
Tick == credit' = credit + 1

\* the caller starts the API call `op`, having received `gate` ticks for it
\* (1 where the call follows a <-rateLimitTierN in the same step, else 0)
Issue(op, gate) ==
    /\ calls' = calls \cup { op }
    /\ credit' = credit + gate - 1

(***************************************************************************)
(* func init()                                                             *)
(***************************************************************************)
AfterInit(cfg, v) ==
    IF v = "im" THEN "logToken"
    ELSE IF cfg.UserID # "" THEN "channelIDForUserID"
    ELSE IF cfg.Channel # "" THEN "channelIDForChannelName"
    ELSE "logToken"

LoadConfig ==
    /\ pc = "init"
    /\ IF file.kind = "malformed"
       THEN /\ Fatal("parse config file")
            /\ UNCHANGED << config, state, file >>
       ELSE LET merged == IF file.kind = "json"
                          THEN Decode(config, file.fields, variant)
                          ELSE config
            IN  /\ config' = merged
                /\ IF MissingParameter(merged, variant) # ""
                   THEN /\ Fatal(MissingParameter(merged, variant))
                        /\ UNCHANGED << state, file >>
                   ELSE /\ pc' = AfterInit(merged, variant)
                        /\ exitMsg' = ""
                        \* the deferred f.Close() runs when init returns
                        /\ file' = Closed
                        \* part_000:75 strings.Split(config.IM, ",")
                        /\ state' = IF variant = "im"
                                    THEN [state EXCEPT !.MemberList =
                                            IF merged.IM = << >> THEN << "" >>
                                            ELSE merged.IM]
                                    ELSE state
    /\ UNCHANGED << variant, credit, calls, answered >>
    /\ UNCHANGED << listVars, fetchVars, wipeVars, redactVars, trace >>

(***************************************************************************)
(* Conversation listing: the cursor loop shared by channelIDForUserID,     *)
(* channelIDForChannelName, channelForChannelName and channelForIM.        *)
(***************************************************************************)
\* Types of the GetConversationsParameters of each listing function
ListingTypes(fn) ==
    CASE fn = "channelForIM" -> { "mpim", "im" }
      [] fn = "channelForChannelName" -> { "private_channel", "public_channel" }
      [] OTHER -> { "private_channel", "public_channel", "mpim", "im" }

\* what GetConversations can answer: a page, the next cursor, an error
ConvResponses(fn, n) ==
    { [page |-> pg, next |-> nx, err |-> FALSE] :
        pg \in { << >> } \cup
               { << c >> : c \in { d \in Convs : ConvType(d) \in ListingTypes(fn) } },
        nx \in IF n + 1 < MaxCursorCalls THEN { "", "next" } ELSE { "" } }
    \cup { [page |-> << >>, next |-> "", err |-> TRUE] }

\* faulty variant of FirstNamed: the last conversation with the name
LastNamed(chs, name, i) ==
    LET named == { j \in DOMAIN chs : j >= i /\ chs[j].Name = name } IN
    IF named = {} THEN 0 ELSE CHOOSE j \in named : \A k \in named : k <= j

\* main.go:174-179, part_000:266-272: first conversation with the name
RECURSIVE FirstNamed(_, _, _)
FirstNamed(chs, name, i) ==
    IF i > Len(chs) THEN 0
    ELSE IF chs[i].Name = name THEN i
    ELSE FirstNamed(chs, name, i + 1)

\* main.go:202-208: first direct conversation with the user
RECURSIVE FirstDirect(_, _, _)
FirstDirect(chs, userID, i) ==
    IF i > Len(chs) THEN 0
    ELSE IF chs[i].IsIM /\ chs[i].User = userID THEN i
    ELSE FirstDirect(chs, userID, i + 1)

\* part_000:198-220: the scan of channelForIM from conversation i up to the
\* next conversation that decides it or needs its member list
RECURSIVE ScanIM(_, _, _)
ScanIM(chs, idMap, i) ==
    IF i > Len(chs) THEN [kind |-> "notfound", at |-> i]
    ELSE IF chs[i].IsIM /\ Cardinality(idMap) = 2 /\ chs[i].User \in idMap
         THEN [kind |-> "found", at |-> i]
    ELSE IF chs[i].IsMpIM /\ Cardinality(idMap) > 2
         THEN [kind |-> "members", at |-> i]
    ELSE ScanIM(chs, idMap, i + 1)

\* faulty variant of WipeStart: the message phase is entered whatever -messages says
WipeStartAlways(cfg, v, ch) ==
    IF v = "im" /\ (ch.IsMpIM \/ ch.IsIM) THEN "fetchDirectMessages"
    ELSE "fetchMessages"

\* where main goes once the conversation is resolved
WipeStart(cfg, v, ch) ==
    IF cfg.WipeMessages
    THEN IF v = "im" /\ (ch.IsMpIM \/ ch.IsIM) THEN "fetchDirectMessages"
         ELSE "fetchMessages"
    ELSE IF cfg.WipeFiles THEN "fetchFiles"
    ELSE "done"

AfterMessages(cfg) == IF cfg.WipeFiles THEN "fetchFiles" ELSE "done"

\* main.go:202-209
ResolveUserID(chs) ==
    LET i == FirstDirect(chs, config.UserID, 1) IN
    /\ ci' = ci
    /\ channels' = << >>
    /\ IF i = 0
       THEN /\ Fatal("fetch channel info for dm")
            /\ UNCHANGED << config, state >>
       ELSE /\ state' = [state EXCEPT !.Channel = [NoChannel EXCEPT !.ID = chs[i].ID]]
            /\ config' = [config EXCEPT !.Channel = chs[i].Name]
            /\ pc' = IF chs[i].Name # "" THEN "channelIDForChannelName"
                     ELSE "logToken"
            /\ exitMsg' = ""

\* main.go:174-180
ResolveChannelID(chs) ==
    LET i == FirstNamed(chs, config.Channel, 1) IN
    /\ ci' = ci
    /\ channels' = << >>
    /\ config' = config
    /\ IF i = 0
       THEN /\ Fatal("fetch channel info for channel")
            /\ UNCHANGED state
       ELSE /\ state' = [state EXCEPT !.Channel = [NoChannel EXCEPT !.ID = chs[i].ID]]
            /\ pc' = "logToken"
            /\ exitMsg' = ""

\* part_000:266-273
ResolveChannel(chs) ==
    LET i == FirstNamed(chs, config.Channel, 1) IN
    /\ ci' = ci
    /\ channels' = << >>
    /\ config' = config
    /\ IF i = 0
       THEN /\ Fatal("fetch channel info for channel")
            /\ UNCHANGED state
       ELSE /\ state' = [state EXCEPT !.Channel = chs[i]]
            /\ pc' = WipeStart(config, variant, chs[i])
            /\ exitMsg' = ""

\* strings.TrimPrefix(m, "@")
TrimPrefixAt(m) == IF m # << >> /\ Head(m) = "@" THEN Tail(m) ELSE m

\* state.Users[m].ID: the zero User, with ID "", when m is not a key
LookupID(users, m) == IF m \in DOMAIN users THEN users[m] ELSE ""

\* part_000:96-102
MemberIDs(userID, users, memberList) ==
    { userID } \cup
    { LookupID(users, TrimPrefixAt(TrimSpace(memberList[i]))) :
        i \in DOMAIN memberList }

\* part_000:197-221, entered at conversation `from`
SelectIM(chs, from) ==
    LET r == ScanIM(chs, state.MemberIDMap, from) IN
    /\ config' = config
    /\ IF r.kind = "found"
       THEN /\ state' = [state EXCEPT !.Channel =
                            [chs[r.at] EXCEPT !.Name = "IM with MemberList"]]
            /\ pc' = WipeStart(config, variant, chs[r.at])
            /\ exitMsg' = ""
            /\ channels' = << >>
            /\ ci' = 0
       ELSE IF r.kind = "members"
       THEN /\ pc' = "usersInConversation"
            /\ exitMsg' = ""
            /\ channels' = chs
            /\ ci' = r.at
            /\ state' = state
       ELSE /\ Fatal("fetch channel info for conversation")
            /\ channels' = << >>
            /\ ci' = 0
            /\ state' = state

ResolveIM(chs) == SelectIM(chs, 1)

\* the code after the listing loop of function fn
Resolve(fn, chs) ==
    IF fn = "channelIDForUserID" THEN ResolveUserID(chs)
    ELSE IF fn = "channelIDForChannelName" THEN ResolveChannelID(chs)
    ELSE IF fn = "channelForChannelName" THEN ResolveChannel(chs)
    ELSE ResolveIM(chs)

\* one iteration of the listing loop of function fn
ListConversations(fn, errMsg) ==
    /\ pc = fn
    /\ Issue("GetConversations", 1)
    /\ \E r \in ConvResponses(fn, ncalls) :
        /\ trace' = Logged(Entry(fn, "", 0, cursor, r.page, 0, r.next, FALSE, r.err))
        /\ IF r.err
           THEN /\ Fatal(errMsg)
                /\ UNCHANGED << config, state, channels, cursor, ncalls, ci >>
           ELSE IF r.next # ""
           THEN /\ channels' = channels \o r.page
                /\ cursor' = r.next
                /\ ncalls' = ncalls + 1
                /\ UNCHANGED << config, state, pc, exitMsg, ci >>
           ELSE /\ cursor' = ""
                /\ ncalls' = 0
                /\ Resolve(fn, channels \o r.page)
    /\ UNCHANGED << variant, file, members, answered >>
    /\ UNCHANGED << fetchVars, wipeVars, redactVars >>

\* main.go:183-210
ChannelIDForUserID ==
    ListConversations("channelIDForUserID", "fetch channel info for dm")

\* main.go:155-181
ChannelIDForChannelName ==
    ListConversations("channelIDForChannelName", "fetch channel info for channel")

\* part_000:247-274
ChannelForChannelName ==
    ListConversations("channelForChannelName", "fetch channel info for channel")

\* part_000:178-222
ChannelForIM ==
    ListConversations("channelForIM", "fetch channel info for conversation")

\* what GetUsersInConversation can answer
MemberPages == { << "U1", "U2", "U3" >>, << "U1", "U2" >>, << "U3" >>, << "U1", "U2", "U4" >> }

MemberResponses(n) ==
    { [page |-> pg, next |-> nx, err |-> FALSE] :
        pg \in MemberPages,
        nx \in IF n + 1 < MaxCursorCalls THEN { "", "next" } ELSE { "" } }
    \cup { [page |-> << >>, next |-> "", err |-> TRUE] }

\* part_000:209-216: the member list equals the requested set
SameMembers(ms, idMap) ==
    /\ Len(ms) = Cardinality(idMap)
    /\ \A i \in DOMAIN ms : ms[i] \in idMap

\* part_000:224-245, one request, and part_000:205-218 once the list is whole
UsersInConversation ==
    /\ pc = "usersInConversation"
    /\ Issue("GetUsersInConversation", 1)
    /\ \E r \in MemberResponses(ncalls) :
        /\ trace' = Logged(Entry(pc, channels[ci].ID, 0, cursor, r.page, 0, r.next,
                                FALSE, r.err))
        /\ IF r.err
           THEN /\ Fatal("fetch channel info for conversation")
                /\ UNCHANGED << config, state, channels, cursor, ncalls, ci, members >>
           ELSE IF r.next # ""
           THEN /\ members' = members \o r.page
                /\ cursor' = r.next
                /\ ncalls' = ncalls + 1
                /\ UNCHANGED << config, state, pc, exitMsg, channels, ci >>
           ELSE /\ members' = << >>
                /\ cursor' = ""
                /\ ncalls' = 0
                /\ IF SameMembers(members \o r.page, state.MemberIDMap)
                   THEN /\ state' = [state EXCEPT !.Channel = channels[ci]]
                        /\ pc' = WipeStart(config, variant, channels[ci])
                        /\ exitMsg' = ""
                        /\ channels' = << >>
                        /\ ci' = 0
                        /\ config' = config
                   ELSE SelectIM(channels, ci + 1)
    /\ UNCHANGED << variant, file, answered >>
    /\ UNCHANGED << fetchVars, wipeVars, redactVars >>

(***************************************************************************)
(* main: token logging, authentication, user directory.                    *)
(***************************************************************************)
\* config.Token[:8] and config.Token[len(config.Token)-9:] are in range
TokenSlicesInRange(tok) == 8 <= Len(tok) /\ Len(tok) - 9 >= 0

\* main.go:93, part_000:85
LogToken ==
    /\ pc = "logToken"
    /\ pc' = IF TokenSlicesInRange(config.Token) THEN "fetchUserInfo" ELSE "panic"
    /\ UNCHANGED << variant, config, file, state, exitMsg, credit, calls, answered >>
    /\ UNCHANGED << listVars, fetchVars, wipeVars, redactVars, trace >>

AfterUserInfo(cfg, v, ch) ==
    IF v = "dm" THEN WipeStart(cfg, v, ch)
    ELSE IF cfg.IM # << >> THEN "fetchUsers"
    ELSE "channelForChannelName"

\* main.go:212-221, part_000:276-285
FetchUserInfo ==
    /\ pc = "fetchUserInfo"
    /\ Issue("AuthTest", 1)
    /\ \E err \in BOOLEAN :
        IF err
        THEN /\ Fatal("fetch user info")
             /\ UNCHANGED state
        ELSE /\ state' = [state EXCEPT !.User = "alice", !.UserID = Me]
             /\ pc' = AfterUserInfo(config, variant, state.Channel)
             /\ exitMsg' = ""
    /\ UNCHANGED << variant, config, file, answered >>
    /\ UNCHANGED << listVars, fetchVars, wipeVars, redactVars, trace >>

\* part_000:287-297 and main's part_000:93-102; GetUsers waits for no ticker
FetchUsers ==
    /\ pc = "fetchUsers"
    /\ Issue("GetUsers", 0)
    /\ \E err \in BOOLEAN :
        IF err
        THEN /\ Fatal("fetch users")
             /\ UNCHANGED state
        ELSE /\ state' = [state EXCEPT
                            !.Users = Directory,
                            !.MemberIDMap =
                                MemberIDs(state.UserID, Directory, state.MemberList)]
             /\ pc' = "channelForIM"
             /\ exitMsg' = ""
    /\ UNCHANGED << variant, config, file, answered >>
    /\ UNCHANGED << listVars, fetchVars, wipeVars, redactVars, trace >>

(***************************************************************************)
(* Collecting: fetchMessages, fetchDirectMessages, fetchFiles.             *)
(***************************************************************************)
DefaultPage == 1     \* Page of slack.NewSearchParameters / NewGetFilesParameters
DefaultPageMax == 1  \* pageMax := 1

\* the page the next request asks for
NextPage == IF ncalls = 0 THEN DefaultPage ELSE page

\* faulty variant of MorePages: the last page is never requested
MorePagesStrict(pg, pgMax) == pg < pgMax

\* for params.Page <= pageMax
MorePages(pg, pgMax) == pg <= pgMax

\* faulty variant of Accumulate: each page replaces the pages before it
AccumulateLast(acc, more) == more

\* messages = append(messages, resp.Matches...)
Accumulate(acc, more) == acc \o more

\* main.go:250-255: the messages whose author is the authenticated user
OwnMessages(msgs, userID) == SelectSeq(msgs, LAMBDA m : m.User = userID)

AfterFetch(kind) ==
    IF config.AutoApprove
    THEN IF kind = "files" THEN "deleteAllUserFiles"
         ELSE IF config.Redact THEN "redactAllUserMessages"
         ELSE "deleteAllUserMessages"
    ELSE IF kind = "files" THEN "promptFiles" ELSE "promptMessages"

\* what SearchMessages can answer
SearchResponses ==
    { [items |-> ms, pageCount |-> n, err |-> FALSE] :
        ms \in Pages(Messages, listed.messages),
        n \in 0..MaxPageCount }
    \cup { [items |-> << >>, pageCount |-> 0, err |-> TRUE] }

\* main.go:223-258, part_000:338-373: one request of fetchMessages
FetchMessages ==
    /\ pc = "fetchMessages"
    /\ Issue("SearchMessages", 1)
    /\ \E r \in SearchResponses :
        /\ trace' = Logged(Entry(pc, state.Channel.ID, NextPage, "", r.items,
                                r.pageCount, "", FALSE, r.err))
        /\ IF r.err
           THEN /\ Fatal("fetch messages")
                /\ UNCHANGED << state, page, pageMax, messages, listed, ncalls >>
           ELSE /\ listed' = [listed EXCEPT !.messages = @ \o r.items]
                /\ IF MorePages(NextPage + 1, r.pageCount)
                   THEN /\ messages' = Accumulate(messages, r.items)
                        /\ page' = NextPage + 1
                        /\ pageMax' = r.pageCount
                        /\ ncalls' = ncalls + 1
                        /\ UNCHANGED << state, pc, exitMsg >>
                   ELSE /\ state' = [state EXCEPT !.UserMessages =
                               OwnMessages(Accumulate(messages, r.items), state.UserID)]
                        /\ messages' = << >>
                        /\ page' = 0
                        /\ pageMax' = 0
                        /\ ncalls' = 0
                        /\ pc' = AfterFetch("messages")
                        /\ exitMsg' = ""
    /\ UNCHANGED << variant, config, file, answered >>
    /\ UNCHANGED << channels, cursor, ci, members, wipeVars, redactVars >>

\* slack.Message of a history page: no channel field
HistMessages == { [User |-> m.User, Timestamp |-> m.Timestamp, Text |-> m.Text] :
                    m \in Messages }

\* what GetConversationHistory can answer
HistResponses(n) ==
    { r \in [items : Pages(HistMessages, listed.messages),
             next : { "", "next" }, hasMore : BOOLEAN, err : { FALSE }] :
        n + 1 < MaxCursorCalls \/ r.next = "" \/ ~r.hasMore }
    \cup { [items |-> << >>, next |-> "", hasMore |-> FALSE, err |-> TRUE] }

\* part_000:310-322: the user's messages of a page, as search messages
OwnHistory(items, userID, channelID) ==
    LET own == SelectSeq(items, LAMBDA m : m.User = userID) IN
    [i \in DOMAIN own |->
        Msg(own[i].User, channelID, own[i].Timestamp, own[i].Text)]

\* the messages of a history page are messages of the conversation asked for
InChannel(items, channelID) ==
    [i \in DOMAIN items |->
        Msg(items[i].User, channelID, items[i].Timestamp, items[i].Text)]

\* faulty variant of HistoryDone: only the cursor ends the loop
HistoryDoneCursorOnly(nextCursor, hasMore) == nextCursor = ""

\* part_000:323-326: no further page
HistoryDone(nextCursor, hasMore) == nextCursor = "" \/ ~hasMore

\* part_000:299-336: one request of fetchDirectMessages
FetchDirectMessages ==
    /\ pc = "fetchDirectMessages"
    /\ Issue("GetConversationHistory", 1)
    /\ \E r \in HistResponses(ncalls) :
        /\ trace' = Logged(Entry(pc, state.Channel.ID, 0, cursor, r.items, 0,
                                r.next, r.hasMore, r.err))
        /\ IF r.err
           THEN /\ Fatal("fetch messages")
                /\ UNCHANGED << state, cursor, messages, listed, ncalls >>
           ELSE LET own == OwnHistory(r.items, state.UserID, state.Channel.ID) IN
                /\ listed' = [listed EXCEPT !.messages =
                               @ \o InChannel(r.items, state.Channel.ID)]
                /\ IF HistoryDone(r.next, r.hasMore)
                   THEN /\ state' = [state EXCEPT !.UserMessages = messages \o own]
                        /\ messages' = << >>
                        /\ cursor' = ""
                        /\ ncalls' = 0
                        /\ pc' = AfterFetch("messages")
                        /\ exitMsg' = ""
                   ELSE /\ messages' = messages \o own
                        /\ cursor' = r.next
                        /\ ncalls' = ncalls + 1
                        /\ UNCHANGED << state, pc, exitMsg >>
    /\ UNCHANGED << variant, config, file, answered, page, pageMax >>
    /\ UNCHANGED << channels, ci, members, wipeVars, redactVars >>

\* what GetFiles can answer; paging may be nil
FileResponses ==
    { [items |-> fs, paging |-> pg, err |-> FALSE] :
        fs \in Pages(Files, listed.files),
        pg \in { [nil |-> TRUE, Pages |-> 0] }
               \cup { [nil |-> FALSE, Pages |-> n] : n \in 0..MaxPageCount } }
    \cup { [items |-> << >>, paging |-> [nil |-> TRUE, Pages |-> 0], err |-> TRUE] }

\* main.go:260-294, part_000:375-409: one request of fetchFiles
FetchFiles ==
    /\ pc = "fetchFiles"
    /\ Issue("GetFiles", 1)
    /\ \E r \in FileResponses :
        /\ trace' = Logged(Entry(pc, state.Channel.ID, NextPage, "", r.items,
                                IF r.paging.nil THEN -1 ELSE r.paging.Pages,
                                "", FALSE, r.err))
        /\ IF r.err
           THEN /\ Fatal("fetch files")
                /\ UNCHANGED << state, page, pageMax, messages, listed, ncalls >>
           ELSE LET pm == IF r.paging.nil
                          THEN (IF ncalls = 0 THEN DefaultPageMax ELSE pageMax)
                          ELSE r.paging.Pages
                IN
                /\ listed' = [listed EXCEPT !.files = @ \o r.items]
                /\ IF MorePages(NextPage + 1, pm)
                   THEN /\ messages' = Accumulate(messages, r.items)
                        /\ page' = NextPage + 1
                        /\ pageMax' = pm
                        /\ ncalls' = ncalls + 1
                        /\ UNCHANGED << state, pc, exitMsg >>
                   ELSE /\ state' = [state EXCEPT !.UserFiles =
                                       Accumulate(messages, r.items)]
                        /\ messages' = << >>
                        /\ page' = 0
                        /\ pageMax' = 0
                        /\ ncalls' = 0
                        /\ pc' = AfterFetch("files")
                        /\ exitMsg' = ""
    /\ UNCHANGED << variant, config, file, answered >>
    /\ UNCHANGED << channels, cursor, ci, members, wipeVars, redactVars >>

(***************************************************************************)
(* approvalPrompt                                                          *)
(***************************************************************************)
\* what the terminal can hold when the prompt reads it
Stdins ==
    { << "y", "e", "s", "\n" >>,
      << " ", "Y", "e", "S", "\t", "\n" >>,
      << "y", "\n" >>,
      << "n", "o", "\n" >>,
      << "y", "e", "s", "!", "\n" >>,
      << "y", " ", "e", "s", "\n" >>,
      << "\n" >>,
      << "y", "e", "s" >>,
      << >> }

RECURSIVE FirstNewline(_, _)
FirstNewline(s, i) ==
    IF i > Len(s) THEN 0
    ELSE IF s[i] = "\n" THEN i
    ELSE FirstNewline(s, i + 1)

\* bufio.Reader.ReadString('\n'): the line with its delimiter, or an error
ReadString(s) ==
    IF FirstNewline(s, 1) = 0
    THEN [line |-> s, err |-> TRUE]
    ELSE [line |-> SubSeq(s, 1, FirstNewline(s, 1)), err |-> FALSE]

\* faulty variant of Approved: anything but "no" counts as consent
ApprovedUnlessNo(answer) == ToLower(TrimSpace(answer)) # << "n", "o" >>

\* main.go:151-152
Approved(answer) == ToLower(TrimSpace(answer)) = << "y", "e", "s" >>

AfterApproval(kind) ==
    IF kind = "files" THEN "deleteAllUserFiles"
    ELSE IF config.Redact THEN "redactAllUserMessages"
    ELSE "deleteAllUserMessages"

PromptKind == IF pc = "promptFiles" THEN "files" ELSE "messages"

\* main.go:144-153 with its callers' main.go:114-118, 134-138
ApprovalPrompt ==
    /\ pc \in { "promptMessages", "promptFiles" }
    /\ \E in \in Stdins :
        /\ answered' = [answered EXCEPT ![PromptKind] = in]
        /\ IF ReadString(in).err
           THEN Fatal("EOF")
           ELSE IF Approved(ReadString(in).line)
           THEN /\ pc' = AfterApproval(PromptKind)
                /\ exitMsg' = ""
           ELSE Fatal("aborted")
    /\ UNCHANGED << variant, config, file, state, credit, calls >>
    /\ UNCHANGED << listVars, fetchVars, wipeVars, redactVars, trace >>

(***************************************************************************)
(* redact                                                                  *)
(***************************************************************************)
\* faulty variant of RedactRune: only letters and digits are replaced
RedactRuneLettersOnly(r, marker) == IF r \in Letters THEN marker ELSE r

\* main.go:369-374: the rune mapping of redactTransformer
RedactRune(r, marker) == IF IsSpace(r) \/ IsPunct(r) THEN r ELSE marker

\* faulty variant of Redact: the marker is written once per byte of a rune,
\* twice for the block glyph
RedactPerByte(t, marker) ==
    LET out[i \in 0..Len(t)] ==
            IF i = 0 THEN << >>
            ELSE out[i - 1] \o
                 (IF RedactRune(t[i], marker) = t[i] /\ t[i] # marker THEN << t[i] >>
                  ELSE IF t[i] = DefaultMarker THEN << marker, marker >>
                  ELSE << marker >>)
    IN  out[Len(t)]

\* main.go:375: runes.Map(...).String
Redact(t, marker) == [i \in DOMAIN t |-> RedactRune(t[i], marker)]

(***************************************************************************)
(* Wiping messages: deleteAllUserMessages, redactAllUserMessages.  Each    *)
(* message gets a goroutine: wait for a tick, call, and on failure append  *)
(* to the shared `errors` -- a read of the slice and a later write of it.  *)
(***************************************************************************)
WipeOp(fn) == IF fn = "redactAllUserMessages" THEN "UpdateMessage" ELSE "DeleteMessage"

\* faulty variant of NewTask: the goroutine reads the loop variable after the loop
NewTaskLoopVar(fn, m) ==
    LET last == state.UserMessages[Len(state.UserMessages)] IN
    [pc |-> "wait", ts |-> last.Timestamp,
     text |-> IF fn = "redactAllUserMessages"
              THEN [i \in DOMAIN last.Text |->
                        IF last.Text[i] \in Spaces \cup Puncts THEN last.Text[i]
                        ELSE config.RedactMarker]
              ELSE << >>,
     err |-> FALSE, snap |-> << >>, sent |-> << >>]

\* main.go:303, 348-349: what the goroutine captures
NewTask(fn, m) ==
    [pc |-> "wait", ts |-> m.Timestamp,
     text |-> IF fn = "redactAllUserMessages"
              THEN Redact(m.Text, config.RedactMarker) ELSE << >>,
     err |-> FALSE, snap |-> << >>, sent |-> << >>]

Wiping == pc \in { "deleteAllUserMessages", "redactAllUserMessages" }

\* main.go:302-312, 347-358: one iteration of the spawning loop
Spawn ==
    /\ Wiping
    /\ Len(tasks) < Len(state.UserMessages)
    /\ tasks' = Append(tasks, NewTask(pc, state.UserMessages[Len(tasks) + 1]))
    /\ UNCHANGED << variant, config, file, state, pc, exitMsg, credit, calls,
                    answered, errors, fi, deleted, raced >>
    /\ UNCHANGED << listVars, fetchVars, redactVars, trace >>

\* main.go:307, 353
TaskTick(i) ==
    /\ Wiping
    /\ tasks[i].pc = "wait"
    /\ Tick
    /\ tasks' = [tasks EXCEPT ![i].pc = "call"]
    /\ calls' = calls
    /\ UNCHANGED << variant, config, file, state, pc, exitMsg,
                    answered, errors, fi, deleted, raced >>
    /\ UNCHANGED << listVars, fetchVars, redactVars, trace >>

\* faulty variant of AfterCall: a failed call is not recorded
AfterCallDone(failed) == "done"

\* where a goroutine goes after its call
AfterCall(failed) == IF failed THEN "read" ELSE "done"

\* main.go:308, 354
TaskCall(i) ==
    /\ Wiping
    /\ tasks[i].pc = "call"
    /\ Issue(WipeOp(pc), 0)
    /\ \E failed \in BOOLEAN :
        tasks' = [tasks EXCEPT
                    ![i].pc = AfterCall(failed),
                    ![i].err = failed,
                    ![i].sent = Append(@, [op |-> WipeOp(pc),
                                           channel |-> state.Channel.ID,
                                           ts |-> tasks[i].ts,
                                           text |-> tasks[i].text])]
    /\ UNCHANGED << variant, config, file, state, pc, exitMsg,
                    answered, errors, fi, deleted, raced >>
    /\ UNCHANGED << listVars, fetchVars, redactVars, trace >>

\* faulty variant of ReadErrors: append starts from the nil slice of the declaration
ReadErrorsNil(errs) == << >>

\* the slice value append(errors, err) starts from
ReadErrors(errs) == errs

\* main.go:309, 355: append reads the slice ...
TaskRead(i) ==
    /\ Wiping
    /\ tasks[i].pc = "read"
    /\ tasks' = [tasks EXCEPT ![i].pc = "write", ![i].snap = ReadErrors(errors)]
    /\ raced' = (raced \/ \E j \in DOMAIN tasks : j # i /\ tasks[j].pc = "write")
    /\ UNCHANGED << variant, config, file, state, pc, exitMsg, credit, calls,
                    answered, errors, fi, deleted >>
    /\ UNCHANGED << listVars, fetchVars, redactVars, trace >>

\* ... and the assignment writes the slice it has built from what it read
TaskWrite(i) ==
    /\ Wiping
    /\ tasks[i].pc = "write"
    /\ errors' = Append(tasks[i].snap, i)
    /\ tasks' = [tasks EXCEPT ![i].pc = "done", ![i].snap = << >>]
    /\ UNCHANGED << variant, config, file, state, pc, exitMsg, credit, calls,
                    answered, fi, deleted, raced >>
    /\ UNCHANGED << listVars, fetchVars, redactVars, trace >>

\* faulty variant of AllDone: the wait ends once every goroutine was started
AllSpawned == Len(tasks) = Len(state.UserMessages)

\* wg.Wait returns
AllDone == /\ Len(tasks) = Len(state.UserMessages)
           /\ \A i \in DOMAIN tasks : tasks[i].pc = "done"

\* main.go:313-319, 359-365 and the callers' main.go:119-127
WipeMessagesReturn ==
    /\ Wiping
    /\ AllDone
    /\ IF Len(errors) > 0
       THEN Fatal(IF pc = "redactAllUserMessages" THEN "redact messages"
                  ELSE "delete messages")
       ELSE /\ pc' = AfterMessages(config)
            /\ exitMsg' = ""
    /\ UNCHANGED << variant, config, file, state, credit, calls, answered,
                    tasks, errors, fi, deleted, raced >>
    /\ UNCHANGED << listVars, fetchVars, redactVars, trace >>

(***************************************************************************)
(* Wiping files: deleteAllUserFiles.                                       *)
(***************************************************************************)
\* faulty variant of NextFileIndex: the loop stops at the first failed call
NextFileIndexBreak(i, failed, n) == IF failed THEN n ELSE i + 1

\* main.go:326: the range loop moves to the next file whatever the call returned
NextFileIndex(i, failed, n) == i + 1

\* main.go:326-332: one iteration; failed calls are collected, the loop goes on
DeleteFile ==
    /\ pc = "deleteAllUserFiles"
    /\ fi < Len(state.UserFiles)
    /\ Issue("DeleteFile", 1)
    /\ \E failed \in BOOLEAN :
        /\ errors' = IF failed THEN Append(errors, fi + 1) ELSE errors
        /\ fi' = NextFileIndex(fi, failed, Len(state.UserFiles))
    /\ deleted' = Append(deleted, state.UserFiles[fi + 1].ID)
    /\ UNCHANGED << variant, config, file, state, pc, exitMsg, answered, tasks,
                    raced >>
    /\ UNCHANGED << listVars, fetchVars, redactVars, trace >>

\* main.go:333-338 and the caller's main.go:139-141
DeleteFilesReturn ==
    /\ pc = "deleteAllUserFiles"
    /\ fi = Len(state.UserFiles)
    /\ IF Len(errors) > 0
       THEN Fatal("wipe files")
       ELSE /\ pc' = "done"
            /\ exitMsg' = ""
    /\ UNCHANGED << variant, config, file, state, credit, calls, answered,
                    tasks, errors, fi, deleted, raced >>
    /\ UNCHANGED << listVars, fetchVars, redactVars, trace >>

(***************************************************************************)
(* The run.                                                                *)
(***************************************************************************)
Next ==
    \/ LoadConfig
    \/ ChannelIDForUserID
    \/ ChannelIDForChannelName
    \/ ChannelForChannelName
    \/ ChannelForIM
    \/ UsersInConversation
    \/ LogToken
    \/ FetchUserInfo
    \/ FetchUsers
    \/ FetchMessages
    \/ FetchDirectMessages
    \/ FetchFiles
    \/ ApprovalPrompt
    \/ Spawn
    \/ \E i \in DOMAIN tasks : TaskTick(i)
    \/ \E i \in DOMAIN tasks : TaskCall(i)
    \/ \E i \in DOMAIN tasks : TaskRead(i)
    \/ \E i \in DOMAIN tasks : TaskWrite(i)
    \/ WipeMessagesReturn
    \/ DeleteFile
    \/ DeleteFilesReturn

Spec == Init /\ [][Next]_vars

(***************************************************************************)
(* redact as a function: every short text under every marker.              *)
(***************************************************************************)
RedactChars == { " ", "\n", ".", "_", "$", "a", "Y", DefaultMarker }

InitRedact ==
    /\ variant = "dm"
    /\ \E marker \in RedactChars :
        config = [Channel |-> "general", UserID |-> "", IM |-> << >>,
                  Token |-> Tok(9), WipeMessages |-> TRUE, WipeFiles |-> FALSE,
                  AutoApprove |-> FALSE, Redact |-> TRUE, RedactMarker |-> marker]
    /\ file = Closed
    /\ state = InitialState
    /\ pc = "redact"
    /\ exitMsg = ""
    /\ credit = 0
    /\ calls = {}
    /\ channels = << >>
    /\ cursor = ""
    /\ ncalls = 0
    /\ ci = 0
    /\ members = << >>
    /\ page = 0
    /\ pageMax = 0
    /\ messages = << >>
    /\ listed = [messages |-> << >>, files |-> << >>]
    /\ answered = [k \in { "messages", "files" } |-> NoAnswer]
    /\ tasks = << >>
    /\ errors = << >>
    /\ fi = 0
    /\ deleted = << >>
    /\ raced = FALSE
    /\ text \in SeqsUpTo(RedactChars, MaxTextLen)
    /\ redacted = << >>
    /\ again = << >>
    /\ trace = NoTrace

\* main.go:349: redacted := redact(m.Text)
ApplyRedact ==
    /\ pc = "redact"
    /\ redacted' = Redact(text, config.RedactMarker)
    /\ pc' = "redacted"
    /\ UNCHANGED << variant, config, file, state, exitMsg, credit, calls,
                    answered, text, again >>
    /\ UNCHANGED << listVars, fetchVars, wipeVars, trace >>

\* main.go:349 in a later run: m.Text is the text the earlier run sent
RedactAgain ==
    /\ pc = "redacted"
    /\ again' = Redact(redacted, config.RedactMarker)
    /\ pc' = "redactedAgain"
    /\ UNCHANGED << variant, config, file, state, exitMsg, credit, calls,
                    answered, text, redacted >>
    /\ UNCHANGED << listVars, fetchVars, wipeVars, trace >>

NextRedact ==
    \/ ApplyRedact
    \/ RedactAgain

SpecRedact == InitRedact /\ [][NextRedact]_vars

(***************************************************************************)
(* deleteAllUserMessages / redactAllUserMessages on their own: entered     *)
(* with every short list of collected messages, the goroutines scheduled   *)
(* fairly, the ticker ticking and every call returning.                    *)
(***************************************************************************)
InitWipe ==
    /\ variant = "dm"
    /\ \E rd \in BOOLEAN :
        /\ config = [Channel |-> "general", UserID |-> "", IM |-> << >>,
                     Token |-> Tok(9), WipeMessages |-> TRUE, WipeFiles |-> FALSE,
                     AutoApprove |-> TRUE, Redact |-> rd,
                     RedactMarker |-> DefaultMarker]
        /\ pc = IF rd THEN "redactAllUserMessages" ELSE "deleteAllUserMessages"
    /\ file = Closed
    /\ \E ms \in SeqsUpTo({ m \in Messages : m.User = Me }, MaxItems) :
        /\ state = [InitialState EXCEPT
                        !.Channel = [NoChannel EXCEPT !.ID = CGeneral.ID],
                        !.User = "alice", !.UserID = Me, !.UserMessages = ms]
        /\ listed = [messages |-> ms, files |-> << >>]
    /\ exitMsg = ""
    /\ credit = 0
    /\ calls = { "GetConversations", "AuthTest", "SearchMessages" }
    /\ channels = << >>
    /\ cursor = ""
    /\ ncalls = 0
    /\ ci = 0
    /\ members = << >>
    /\ page = 0
    /\ pageMax = 0
    /\ messages = << >>
    /\ answered = [k \in { "messages", "files" } |-> NoAnswer]
    /\ tasks = << >>
    /\ errors = << >>
    /\ fi = 0
    /\ deleted = << >>
    /\ raced = FALSE
    /\ text = << >>
    /\ redacted = << >>
    /\ again = << >>
    /\ trace = NoTrace

NextWipe ==
    \/ Spawn
    \/ \E i \in DOMAIN tasks : TaskTick(i)
    \/ \E i \in DOMAIN tasks : TaskCall(i)
    \/ \E i \in DOMAIN tasks : TaskRead(i)
    \/ \E i \in DOMAIN tasks : TaskWrite(i)
    \/ WipeMessagesReturn

SpecWipe == InitWipe /\ [][NextWipe]_vars /\ WF_vars(NextWipe)

(***************************************************************************)
(* Resolution and collection with the request history kept: the run up to  *)
(* the first wipe, given a token and either a channel name or a            *)
(* direct-message target, auto-approved.                                   *)
(***************************************************************************)
TracedConfigs(v) ==
    { c \in FlagConfigs(v) :
        /\ c.Token = Tok(9)
        /\ c.AutoApprove /\ ~c.Redact /\ c.WipeFiles
        /\ (c.Channel = "") # (c.UserID = "" /\ c.IM = << >>) }

InitTrace ==
    /\ variant \in Variants
    /\ config \in TracedConfigs(variant)
    /\ file = [kind |-> "absent", fields |-> EmptyObject]
    /\ state = InitialState
    /\ pc = "init"
    /\ exitMsg = ""
    /\ credit = 0
    /\ calls = {}
    /\ channels = << >>
    /\ cursor = ""
    /\ ncalls = 0
    /\ ci = 0
    /\ members = << >>
    /\ page = 0
    /\ pageMax = 0
    /\ messages = << >>
    /\ listed = [messages |-> << >>, files |-> << >>]
    /\ answered = [k \in { "messages", "files" } |-> NoAnswer]
    /\ tasks = << >>
    /\ errors = << >>
    /\ fi = 0
    /\ deleted = << >>
    /\ raced = FALSE
    /\ text = << >>
    /\ redacted = << >>
    /\ again = << >>
    /\ trace = [on |-> TRUE, log |-> << >>]

NextTrace ==
    \/ LoadConfig
    \/ ChannelIDForUserID
    \/ ChannelIDForChannelName
    \/ ChannelForChannelName
    \/ ChannelForIM
    \/ UsersInConversation
    \/ LogToken
    \/ FetchUserInfo
    \/ FetchUsers
    \/ FetchMessages
    \/ FetchDirectMessages
    \/ FetchFiles

SpecTrace == InitTrace /\ [][NextTrace]_vars

(***************************************************************************)
(* Properties.                                                             *)
(***************************************************************************)
MessageWipeOps == { "DeleteMessage", "UpdateMessage" }

\* the terminal contents that read as "yes"
YesLines == { << "y", "e", "s", "\n" >>, << " ", "Y", "e", "S", "\t", "\n" >> }

\* delete/redactAllUserMessages has returned
MessagesWiped ==
    \/ /\ config.WipeMessages
       /\ pc \in { "fetchFiles", "promptFiles", "deleteAllUserFiles", "done" }
    \/ pc = "exit" /\ exitMsg \in { "delete messages", "redact messages" }

\* deleteAllUserFiles has returned
FilesWiped ==
    \/ config.WipeFiles /\ pc = "done"
    \/ pc = "exit" /\ exitMsg = "wipe files"

\* the calls goroutine i has made
Sent(i) == tasks[i].sent

\* some goroutine has called `op` for message m in m's channel
SentFor(m, op) ==
    \E i \in DOMAIN tasks : \E k \in DOMAIN Sent(i) :
        /\ Sent(i)[k].op = op
        /\ Sent(i)[k].ts = m.Timestamp
        /\ Sent(i)[k].channel = m.Channel

\* the user's items the remote listed for the resolved conversation
OwnListed(kind) ==
    { x \in Range(listed[kind]) :
        x.User = state.UserID /\ x.Channel = state.Channel.ID }

\* the runes redact leaves alone
KeptRunes == { " ", "\t", "\n", ".", "!", "-", "_" }

\* out is t with every rune outside KeptRunes replaced by the marker
IsRedactionOf(out, t, marker) ==
    /\ Len(out) = Len(t)
    /\ \A i \in DOMAIN t :
        out[i] = IF t[i] \in KeptRunes THEN t[i] ELSE marker

\* C1: with auto-approve off, a message delete/update call is issued only
\* after the messages prompt read a line that is "yes" once trimmed and
\* lower-cased, a file delete call only after the files prompt did; any other
\* answer ends the program with no call of that kind issued.
C1_ConfirmationGate ==
    ~config.AutoApprove =>
        /\ calls \cap MessageWipeOps # {} => answered.messages \in YesLines
        /\ "DeleteFile" \in calls => answered.files \in YesLines
        /\ answered.messages \notin YesLines \cup { NoAnswer } =>
                pc = "exit" /\ calls \cap MessageWipeOps = {}
        /\ answered.files \notin YesLines \cup { NoAnswer } =>
                pc = "exit" /\ "DeleteFile" \notin calls

C1_Witness ==
    /\ ~config.AutoApprove
    /\ answered.messages = << " ", "Y", "e", "S", "\t", "\n" >>
    /\ "DeleteMessage" \in calls
    /\ answered.files = << "y", "e", "s", "\n" >>
    /\ "DeleteFile" \in calls

\* C2 (as claimed): every collected message was authored by the authenticated
\* user and lies in the resolved conversation, and every collected file
\* belongs to that user and that conversation, whatever the remote returns.
C2_Ownership ==
    /\ \A i \in DOMAIN state.UserMessages :
        /\ state.UserMessages[i].User = state.UserID
        /\ state.UserMessages[i].Channel = state.Channel.ID
    /\ \A i \in DOMAIN state.UserFiles :
        /\ state.UserFiles[i].User = state.UserID
        /\ state.UserFiles[i].Channel = state.Channel.ID

\* C3 (as claimed): when an approved run ends without error, a delete call
\* has been issued for every message and file of the user that the remote
\* listed for the conversation.
C3_DeleteForEveryListed ==
    pc = "done" =>
        /\ config.WipeMessages =>
            \A m \in OwnListed("messages") : SentFor(m, "DeleteMessage")
        /\ config.WipeFiles =>
            \A f \in OwnListed("files") : f.ID \in Range(deleted)

\* C3 (amended): when an approved run ends without error, every message of
\* the user that the remote listed for the conversation has received a
\* delete call -- an update call when Redact is set -- and every such file a
\* delete call.
C3_Completeness ==
    pc = "done" =>
        /\ config.WipeMessages =>
            \A m \in OwnListed("messages") :
                SentFor(m, IF config.Redact THEN "UpdateMessage" ELSE "DeleteMessage")
        /\ config.WipeFiles =>
            \A f \in OwnListed("files") : f.ID \in Range(deleted)

C3_Witness ==
    /\ pc = "done"
    /\ config.WipeMessages /\ config.WipeFiles /\ config.Redact
    /\ Len(listed.messages) = 2
    /\ OwnListed("messages") # {}
    /\ OwnListed("files") # {}

C5_RedactInsteadOfDelete ==
    /\ config.Redact => "DeleteMessage" \notin calls
    /\ ~config.Redact => "UpdateMessage" \notin calls
    /\ config.Redact =>
        /\ \A i \in DOMAIN tasks :
            /\ Len(Sent(i)) <= 1
            /\ \A k \in DOMAIN Sent(i) :
                /\ Sent(i)[k].op = "UpdateMessage"
                /\ Sent(i)[k].ts = state.UserMessages[i].Timestamp
                /\ IsRedactionOf(Sent(i)[k].text, state.UserMessages[i].Text,
                                 config.RedactMarker)
        /\ MessagesWiped =>
            /\ Len(tasks) = Len(state.UserMessages)
            /\ \A i \in DOMAIN tasks : Len(Sent(i)) = 1

C5_Witness ==
    /\ config.Redact
    /\ MessagesWiped
    /\ Len(tasks) = 2
    /\ tasks[1].ts # tasks[2].ts
    /\ \A i \in DOMAIN tasks : Len(Sent(i)) = 1

\* C6: redact returns a text of the same length in which every whitespace
\* or punctuation rune is unchanged and every other rune is the marker.
C6_RedactShape ==
    pc = "redacted" => IsRedactionOf(redacted, text, config.RedactMarker)

C6_Witness ==
    /\ pc = "redacted"
    /\ text = << "a", " ", "$" >>
    /\ redacted = << DefaultMarker, " ", DefaultMarker >>

\* C7 (as claimed): every API call is preceded by the caller receiving one
\* tick, so the calls started never outnumber the ticks received.
C7_RateLimitGate == credit >= 0

\* C8: the required parameters are checked on the merged configuration: init
\* exits exactly when, after the file's fields have overwritten the flags,
\* the token is empty or both channel and direct-message target are empty,
\* and no API call has been made by then.
C8_RequiredAfterMerge ==
    [][pc = "init" =>
        LET o == file.fields
            tok == IF "Token" \in DOMAIN o THEN o["Token"] ELSE config.Token
            ch == IF "Channel" \in DOMAIN o THEN o["Channel"] ELSE config.Channel
            peer == IF variant = "dm"
                    THEN (IF "UserID" \in DOMAIN o THEN o["UserID"]
                          ELSE config.UserID) # ""
                    ELSE (IF "IM" \in DOMAIN o THEN o["IM"] ELSE config.IM) # << >>
            missing == tok = << >> \/ (ch = "" /\ ~peer)
        IN  /\ calls' = {}
            /\ file.kind = "malformed" => pc' = "exit"
            /\ file.kind # "malformed" =>
                /\ (pc' = "exit") <=> missing
                /\ config'.Token = tok
                /\ config'.Channel = ch
    ]_vars

C8_Witness ==
    /\ pc = "exit"
    /\ exitMsg = "-token is required"
    /\ file.kind = "json"
    /\ "Token" \in DOMAIN file.fields
    /\ config.Channel = "general"
    /\ calls = {}

\* C9: each collected message and each collected file gets exactly one call,
\* whether or not the calls for other items failed.
C9_OneCallPerItem ==
    /\ \A i \in DOMAIN tasks :
        /\ Len(Sent(i)) = IF tasks[i].pc \in { "wait", "call" } THEN 0 ELSE 1
        /\ \A k \in DOMAIN Sent(i) :
            Sent(i)[k].ts = state.UserMessages[i].Timestamp
    /\ MessagesWiped => Len(tasks) = Len(state.UserMessages)
    /\ Len(deleted) = fi
    /\ \A k \in DOMAIN deleted : deleted[k] = state.UserFiles[k].ID
    /\ FilesWiped => Len(deleted) = Len(state.UserFiles)

C9_Witness ==
    /\ pc = "exit"
    /\ exitMsg = "wipe files"
    /\ errors = << 1 >>
    /\ Len(deleted) = 2

\* C10: the goroutines append to `errors` without mutual exclusion: the list
\* never holds more errors than calls that failed, it holds fewer only after
\* one goroutine read the list while another held an unwritten copy, and
\* that does happen.
FailedAndRecorded == { i \in DOMAIN tasks : tasks[i].err /\ tasks[i].pc = "done" }

C10_ErrorListRace ==
    (Wiping \/ (pc = "exit" /\ exitMsg \in { "delete messages", "redact messages" })) =>
        /\ Len(errors) <= Cardinality(FailedAndRecorded)
        /\ Len(errors) < Cardinality(FailedAndRecorded) => raced

C10_Witness ==
    /\ Wiping
    /\ AllDone
    /\ raced
    /\ Cardinality(FailedAndRecorded) = 2
    /\ Len(errors) = 1

\* C11: deleteAllUserMessages and redactAllUserMessages return only when
\* every message has its goroutine and every goroutine has made its call and
\* recorded the outcome; under fair scheduling they do return, for the
\* empty list with no call made and a nil error.
C11_JoinBeforeReport ==
    /\ [][Wiping /\ ~Wiping' =>
            /\ Len(tasks) = Len(state.UserMessages)
            /\ \A i \in DOMAIN tasks :
                /\ Len(Sent(i)) = 1
                /\ tasks[i].pc = "done"
                /\ tasks[i].err => Len(errors) > 0
            /\ state.UserMessages = << >> =>
                    calls' \cap MessageWipeOps = {} /\ pc' # "exit"
       ]_vars
    /\ Wiping ~> ~Wiping

C11_Witness ==
    /\ pc = "exit"
    /\ exitMsg = "delete messages"
    /\ Len(tasks) = 2
    /\ ~tasks[1].err
    /\ tasks[2].err
    /\ \A i \in DOMAIN tasks : tasks[i].pc = "done" /\ Len(Sent(i)) = 1

\* the API methods the program calls
Methods ==
    { "GetConversations", "GetUsersInConversation", "AuthTest", "GetUsers",
      "SearchMessages", "GetConversationHistory", "GetFiles",
      "DeleteMessage", "UpdateMessage", "DeleteFile" }

FileOps == { "GetFiles", "DeleteFile" }

FilePhaseBegun ==
    \/ calls \cap FileOps # {}
    \/ pc \in { "fetchFiles", "promptFiles", "deleteAllUserFiles" }

\* the message phase ended in failure: fetch error, declined confirmation or
\* a reported delete/update error
MessagePhaseFailed ==
    /\ pc = "exit"
    /\ \/ exitMsg \in { "fetch messages", "delete messages", "redact messages" }
       \/ exitMsg \in { "aborted", "EOF" } /\ answered.files = NoAnswer

IsPrefix(s, t) == Len(s) <= Len(t) /\ SubSeq(t, 1, Len(s)) = s

\* C12: the file phase begins only after the message phase has completed
\* without failure; a failed message phase ends the program with no GetFiles
\* or DeleteFile call; calls already made are never taken back: the record
\* of delete/update calls only grows and no other method is ever called.
C12_PhaseOrder ==
    [][ /\ (FilePhaseBegun /\ config.WipeMessages =>
                /\ Len(tasks) = Len(state.UserMessages)
                /\ \A i \in DOMAIN tasks :
                    tasks[i].pc = "done" /\ ~tasks[i].err /\ Len(Sent(i)) = 1
                /\ config.AutoApprove \/ answered.messages \in YesLines)'
        /\ (MessagePhaseFailed => calls \cap FileOps = {})'
        /\ calls \subseteq calls'
        /\ calls' \subseteq Methods
        /\ IsPrefix(deleted, deleted')
        /\ Len(tasks) <= Len(tasks')
        /\ \A i \in DOMAIN tasks : IsPrefix(tasks[i].sent, tasks'[i].sent)
      ]_vars

C12_Witness ==
    /\ pc = "exit"
    /\ exitMsg = "delete messages"
    /\ config.WipeFiles
    /\ Len(tasks) = 2
    /\ Len(Sent(1)) = 1 /\ ~tasks[1].err
    /\ tasks[2].err
    /\ calls \cap FileOps = {}

\* the items of the first k answers of the history, in order
RECURSIVE Concat(_, _)
Concat(L, k) == IF k = 0 THEN << >> ELSE Concat(L, k - 1) \o L[k].items

Max(a, b) == IF a > b THEN a ELSE b

\* C13: fetchMessages and fetchFiles ask for pages 1, 2, 3, ... each once;
\* they go on exactly while the next page number is at most the page count
\* last reported (1 before GetFiles has reported any); with a constant count N
\* they make max(1, N) requests; the list they build is the concatenation of
\* the pages in order (of which fetchMessages stores the user's messages).
C13_PageNumbered ==
    LET L == trace.log IN
    (L # << >> /\ L[1].fn \in { "fetchMessages", "fetchFiles" }) =>
        LET fn == L[1].fn
            n == Len(L)
            Count[k \in 1..n] ==
                IF L[k].count = -1
                THEN (IF k = 1 THEN 1 ELSE Count[k - 1])
                ELSE L[k].count
            all == Concat(L, n)
        IN  /\ \A k \in 1..n : L[k].page = k
            /\ \A k \in 1..(n - 1) : ~L[k].err /\ k + 1 <= Count[k]
            /\ L[n].err => pc = "exit"
            /\ ~L[n].err =>
                /\ (pc = fn) <=> (n + 1 <= Count[n])
                /\ pc = fn => messages = all
                /\ pc # fn /\ fn = "fetchFiles" => state.UserFiles = all
                /\ pc # fn /\ fn = "fetchMessages" =>
                        state.UserMessages =
                            SelectSeq(all, LAMBDA m : m.User = state.UserID)
                /\ (pc # fn /\ \A k \in 1..n : Count[k] = Count[1]) =>
                        n = Max(1, Count[1])

C13_Witness ==
    /\ pc = "deleteAllUserFiles"
    /\ Len(trace.log) = 2
    /\ trace.log[1].fn = "fetchFiles"
    /\ trace.log[1].count = 2 /\ trace.log[2].count = 2
    /\ Len(trace.log[1].items) = 1 /\ Len(trace.log[2].items) = 1
    /\ Len(state.UserFiles) = 2

\* C14: when a page request of fetchMessages, fetchDirectMessages or
\* fetchFiles fails, nothing is stored in the state, the program exits, no
\* prompt for that kind is shown and no delete/update call of that kind is
\* issued.
C14_NoWipeOnPartialListing ==
    /\ exitMsg = "fetch messages" =>
        /\ pc = "exit"
        /\ state.UserMessages = << >>
        /\ answered.messages = NoAnswer
        /\ tasks = << >>
        /\ calls \cap MessageWipeOps = {}
    /\ exitMsg = "fetch files" =>
        /\ pc = "exit"
        /\ state.UserFiles = << >>
        /\ answered.files = NoAnswer
        /\ deleted = << >>
        /\ "DeleteFile" \notin calls

C14_Witness ==
    /\ pc = "exit"
    /\ exitMsg = "fetch messages"
    /\ \E i \in DOMAIN listed.messages : listed.messages[i].User = state.UserID
    /\ state.UserMessages = << >>

NameListings == { "channelIDForChannelName", "channelForChannelName" }

\* the run was given a channel name and no direct-message target
GivenChannelOnly == config.UserID = "" /\ config.IM = << >>

\* C15: resolving a channel name follows the listing cursor by cursor until
\* an empty next cursor comes back; only then the channel becomes the first
\* listed conversation of that name; when there is none, or a request fails,
\* the channel stays unset and the program exits before any search, history,
\* file listing, delete or update call.
C15_ResolveByName ==
    LET L == trace.log IN
    (L # << >> /\ L[1].fn \in NameListings /\ GivenChannelOnly) =>
        LET n == Len(L)
            all == Concat(L, n)
            named == { j \in DOMAIN all : all[j].Name = config.Channel }
            complete == ~L[n].err /\ L[n].next = ""
        IN  /\ L[1].cursor = ""
            /\ \A k \in 2..n :
                ~L[k - 1].err /\ L[k - 1].next # "" /\ L[k].cursor = L[k - 1].next
            /\ (pc = L[1].fn) <=> (~L[n].err /\ L[n].next # "")
            /\ pc = L[1].fn => state.Channel = NoChannel
            /\ (L[n].err \/ (complete /\ named = {})) =>
                /\ pc = "exit"
                /\ state.Channel = NoChannel
                /\ calls \cap ({ "SearchMessages", "GetConversationHistory" }
                               \cup FileOps \cup MessageWipeOps) = {}
            /\ (complete /\ named # {}) =>
                \E j \in named :
                    /\ \A k \in named : j <= k
                    /\ state.Channel.ID = all[j].ID

C15_Witness ==
    /\ pc = "logToken"
    /\ GivenChannelOnly
    /\ Len(trace.log) = 2
    /\ trace.log[1].fn = "channelIDForChannelName"
    /\ trace.log[1].items = << CNamedDirect >>
    /\ trace.log[2].items = << CGeneral >>
    /\ state.Channel.ID = CNamedDirect.ID

\* C16: fetchDirectMessages asks for a further history page only while the
\* last response has a non-empty next cursor and reports more messages, and
\* passes that cursor; once a response has an empty cursor or reports no more
\* it returns, having collected from every page, the last included, exactly
\* the authenticated user's messages in page order.
C16_HistoryPagination ==
    LET L == trace.log IN
    (L # << >> /\ L[1].fn = "fetchDirectMessages") =>
        LET n == Len(L)
            all == Concat(L, n)
            own == SelectSeq(all, LAMBDA m : m.User = state.UserID)
            goesOn == ~L[n].err /\ L[n].next # "" /\ L[n].more
        IN  /\ L[1].cursor = ""
            /\ \A k \in 2..n :
                /\ ~L[k - 1].err /\ L[k - 1].next # "" /\ L[k - 1].more
                /\ L[k].cursor = L[k - 1].next
            /\ (pc = "fetchDirectMessages") <=> goesOn
            /\ (~L[n].err /\ ~goesOn) =>
                /\ pc # "exit"
                /\ Len(state.UserMessages) = Len(own)
                /\ \A i \in DOMAIN own :
                    /\ state.UserMessages[i].User = own[i].User
                    /\ state.UserMessages[i].Timestamp = own[i].Timestamp
                    /\ state.UserMessages[i].Text = own[i].Text
                    /\ state.UserMessages[i].Channel = state.Channel.ID

C16_Witness ==
    /\ pc # "fetchDirectMessages"
    /\ Len(trace.log) = 2
    /\ trace.log[1].fn = "fetchDirectMessages"
    /\ \E i \in DOMAIN trace.log[1].items : trace.log[1].items[i].User = state.UserID
    /\ \E i \in DOMAIN trace.log[2].items : trace.log[2].items[i].User = state.UserID
    /\ trace.log[2].next # ""
    /\ ~trace.log[2].more
    /\ Len(state.UserMessages) = 2

\* C17: whatever the order of the goroutines' reads and writes of the shared
\* error list, deleteAllUserMessages / redactAllUserMessages return an error
\* when at least one of their DeleteMessage / UpdateMessage calls failed,
\* and nil when none failed.
C17_FailureNotLost ==
    ~Wiping =>
        /\ \A i \in DOMAIN tasks : tasks[i].pc = "done" /\ Len(tasks[i].sent) = 1
        /\ (\E i \in DOMAIN tasks : tasks[i].err)
            <=> (pc = "exit" /\ exitMsg \in { "delete messages", "redact messages" })

C17_Witness ==
    /\ pc = "exit"
    /\ exitMsg = "delete messages"
    /\ raced
    /\ Len(tasks) = 2
    /\ \A i \in DOMAIN tasks : tasks[i].err
    /\ Len(errors) = 1

\* the program is fetching or wiping
FetchingOrWiping ==
    pc \in { "fetchMessages", "fetchDirectMessages", "fetchFiles", "promptMessages",
             "promptFiles", "deleteAllUserMessages", "redactAllUserMessages",
             "deleteAllUserFiles" }

\* C18: in a run given only a direct-message user ID, the channel ID in
\* effect while messages and files are fetched and deleted is the ID of a
\* direct conversation whose peer is that user, whatever the listing holds.
C18_DirectChannelFinal ==
    (variant = "dm" /\ config.UserID # "" /\ FetchingOrWiping) =>
        \E c \in Convs :
            c.IsIM /\ c.User = config.UserID /\ state.Channel.ID = c.ID

\* the authenticated user and every requested username that is a user
RequestedIDs ==
    { state.UserID } \cup
    { state.Users[TrimPrefixAt(TrimSpace(state.MemberList[i]))] :
        i \in { j \in DOMAIN state.MemberList :
                  TrimPrefixAt(TrimSpace(state.MemberList[j])) \in DOMAIN state.Users } }

\* the requests of the latest member listing: it starts with an empty cursor
LastMemberListing ==
    LET L == trace.log
        k == CHOOSE i \in DOMAIN L :
                 L[i].cursor = "" /\ \A j \in DOMAIN L : L[j].cursor = "" => j <= i
    IN  SubSeq(L, k, Len(L))

\* C19: channelForIM selects a multi-party conversation only when its member
\* set equals the requested set (the authenticated user and every listed
\* username that resolves to a user), and a one-to-one conversation only when
\* exactly one other user was requested and is the conversation's peer; a
\* username that resolves to no user never leads to another selection.
C19_GroupMatchExact ==
    (variant = "im" /\ config.IM # << >> /\ state.Channel.ID # "") =>
        \E c \in Convs :
            /\ c.ID = state.Channel.ID
            /\ c.IsIM =>
                /\ Cardinality(RequestedIDs) = 2
                /\ c.User \in RequestedIDs \ { state.UserID }
            /\ (c.IsMpIM /\ trace.log # << >>
                         /\ trace.log[1].fn = "usersInConversation"
                         /\ trace.log[1].channel = c.ID) =>
                Range(Concat(LastMemberListing, Len(LastMemberListing))) = RequestedIDs

\* C20: for every non-empty token that init accepts, of any length, the
\* logged prefix token[0..8) and suffix token[len-9..len) stay inside the
\* token, so the program goes on to authentication and does not crash.
C20_TokenLoggingInBounds ==
    /\ pc # "panic"
    /\ (pc = "logToken" /\ config.Token # << >>) =>
        /\ 8 <= Len(config.Token)
        /\ 0 <= Len(config.Token) - 9

\* C21: redact is idempotent under every marker: applied to a text it has
\* produced it returns that text, so a second redaction of an already
\* redacted message sends the same text again.
C21_RedactIdempotent ==
    pc = "redactedAgain" => again = redacted

C21_Witness ==
    /\ pc = "redactedAgain"
    /\ config.RedactMarker = "$"
    /\ text = << "Y", ".", DefaultMarker >>
    /\ redacted = << "$", ".", "$" >>
    /\ again = redacted

====
